---- MODULE Spec2Model ----
(***************************************************************************)
(* Model of astrodbkit's Database handler (src/astrodbkit/astrodb.py):     *)
(* the inventory assembler, the per-source JSON export (save_json,         *)
(* save_reference_table, save_database) and the bulk import (load_table,   *)
(* load_json, load_database), over the tables declared in                  *)
(* src/astrodbkit2/schema.py and a foreign-key enforcing store.            *)
(*                                                                         *)
(* Only the key columns of schema.py (primary keys and foreign keys) are   *)
(* carried in the rows: the handler never looks at any other column.       *)
(* Photometry.system refers to a table Systems that schema.py does not     *)
(* declare; the column is left out and Systems is configured as a lookup   *)
(* table that is not in the database.                                      *)
(*                                                                         *)
(* Spec is the handler over a store that is edited, exported and imported; *)
(* SpecSlug exports sources of arbitrary identifiers, SpecConstruct has    *)
(* the constructor, SpecFiles imports directories a user put together,     *)
(* SpecAdd has add_table_data, SpecCodec writes and reads back one         *)
(* document through the JSON codec and SpecSave exports, to the end or     *)
(* until a file operation fails, over any directory.                       *)
(***************************************************************************)
EXTENDS Integers, Sequences, FiniteSets, TLC

\* ------------------------------------------------------------------------
\* Bounds of the model
\* ------------------------------------------------------------------------
\* number of raw store writes (row inserts and deletes) in a behaviour
MaxEdits == 4
\* number of save_database / load_database / add_table_data calls in a
\* behaviour
MaxCalls == 2

\* length of the source identifiers the file-name rule is computed on
MaxNameLen == 3

\* number of files of a directory handed to load_database that
\* save_database did not necessarily write
MaxFiles == 3

\* number of rows handed to one add_table_data call
MaxBatch == 2

\* length of the text values the JSON codec is applied to
MaxTextLen == 5

\* ------------------------------------------------------------------------
\* Values
\* ------------------------------------------------------------------------
\* SQL NULL / Python None / JSON null
NULL == "null"

\* Source identifiers are strings, modelled as sequences of characters so
\* that the file-name rule of save_json can be computed on them.
SourceNames == { <<"A", " ", "b">>, <<"a", "_", "b">>, <<"b", "*">> }
PubNames == {"Schm10", "Cutr12"}
TelescopeNames == {"WISE"}
InstrumentNames == {"NIRI"}
OtherNames == {"n1", "n2"}
Bands == {"W1"}

\* ------------------------------------------------------------------------
\* Schema descriptor
\* ------------------------------------------------------------------------
primary_table == "Sources"
primary_table_key == "source"
foreign_key == "source"
reference_tables == <<"Publications", "Telescopes", "Instruments", "Systems">>

\* metadata.tables, in declaration order
MetadataTables == <<"Publications", "Telescopes", "Instruments", "Sources", "Names", "Photometry">>

Range(s) == { s[i] : i \in DOMAIN s }

TableNames == Range(MetadataTables)

\* the rows a table can hold (column types of schema.py)
RowsOf(t) ==
    CASE t = "Publications" -> [name : PubNames]
      [] t = "Telescopes"   -> [name : TelescopeNames, reference : PubNames \cup {NULL}]
      [] t = "Instruments"  -> [name : InstrumentNames, reference : PubNames \cup {NULL}]
      [] t = "Sources"      -> [source : SourceNames, reference : PubNames]
      [] t = "Names"        -> [source : SourceNames, other_name : OtherNames]
      [] t = "Photometry"   -> [source : SourceNames, band : Bands,
                                telescope : TelescopeNames \cup {NULL},
                                instrument : InstrumentNames \cup {NULL},
                                reference : PubNames]

\* primary_key=True columns
PrimaryKeyCols(t) ==
    CASE t = "Publications" -> {"name"}
      [] t = "Telescopes"   -> {"name"}
      [] t = "Instruments"  -> {"name"}
      [] t = "Sources"      -> {"source"}
      [] t = "Names"        -> {"source", "other_name"}
      [] t = "Photometry"   -> {"source", "band", "reference"}

\* columns that may hold NULL (neither primary_key nor nullable=False)
NullableCols(t) ==
    CASE t = "Telescopes"   -> {"reference"}
      [] t = "Instruments"  -> {"reference"}
      [] t = "Photometry"   -> {"telescope", "instrument"}
      [] OTHER              -> {}

\* ForeignKey(...) columns: <<table, column, referenced table, referenced column>>
ForeignKeys ==
    { <<"Telescopes", "reference", "Publications", "name">>,
      <<"Instruments", "reference", "Publications", "name">>,
      <<"Sources", "reference", "Publications", "name">>,
      <<"Names", "source", "Sources", "source">>,
      <<"Photometry", "source", "Sources", "source">>,
      <<"Photometry", "telescope", "Telescopes", "name">>,
      <<"Photometry", "instrument", "Instruments", "name">>,
      <<"Photometry", "reference", "Publications", "name">> }

\* ------------------------------------------------------------------------
\* The relational store: a table is a set of rows; primary keys are unique
\* and foreign keys are enforced (PRAGMA foreign_keys=ON).
\* ------------------------------------------------------------------------
EmptyStore == [t \in TableNames |-> {}]

IsNull(t, c, r) == c \in NullableCols(t) /\ r[c] = NULL

\* the row r of table t has all its referenced rows in store s
ForeignKeysHold(s, t, r) ==
    \A fk \in ForeignKeys :
        fk[1] = t =>
            \/ IsNull(t, fk[2], r)
            \/ \E p \in s[fk[3]] : p[fk[4]] = r[fk[2]]

SameKey(t, r1, r2) == \A c \in PrimaryKeyCols(t) : r1[c] = r2[c]

\* an INSERT of the rows rs (one statement) into table t is accepted
InsertOK(s, t, rs) ==
    /\ \A r \in rs : \A r2 \in s[t] : ~SameKey(t, r, r2)
    /\ \A r1 \in rs : \A r2 \in rs : SameKey(t, r1, r2) => r1 = r2
    /\ \A r \in rs : ForeignKeysHold(s, t, r)

Insert(s, t, rs) == [s EXCEPT ![t] = @ \cup rs]

\* some row of another table refers to the row p of table t
Referenced(s, t, p) ==
    \E fk \in ForeignKeys :
        /\ fk[3] = t
        /\ \E c \in s[fk[1]] : ~IsNull(fk[1], fk[2], c) /\ c[fk[2]] = p[fk[4]]

\* a DELETE of the rows ps of table t is accepted
DeleteOK(s, t, ps) == \A p \in ps : ~Referenced(s, t, p)

Delete(s, t, ps) == [s EXCEPT ![t] = @ \ ps]

\* the order in which the store yields the rows of a result set: fixed for
\* a given set of rows
RECURSIVE StoreOrder(_)
StoreOrder(rs) ==
    IF rs = {} THEN << >>
    ELSE LET r == CHOOSE x \in rs : TRUE
         IN  <<r>> \o StoreOrder(rs \ {r})

\* a query that loses its filter
QueryUnfiltered(s, t, c, v) == StoreOrder(s[t])

\* session.query(table).filter(column == value).all()
Query(s, t, c, v) == StoreOrder({ r \in s[t] : r[c] = v })

\* session.query(table).all()
QueryAll(s, t) == StoreOrder(s[t])

\* ------------------------------------------------------------------------
\* Inventory
\* ------------------------------------------------------------------------
\* a dictionary with no keys
EmptyDict == << >>

\* data_dict[key] = value
DictSet(d, k, v) == [x \in (DOMAIN d) \cup {k} |-> IF x = k THEN v ELSE d[x]]

\* a cleanup that forgets the del
row_cleanup_keeps(row) == row

row_cleanup(row) == [c \in (DOMAIN row) \ {foreign_key} |-> row[c]]

\* a query handler that records the key of every table it queried
inventory_query_always(s, data_dict, table_name, source_name) ==
    LET column == IF table_name = primary_table THEN primary_table_key ELSE foreign_key
        results == Query(s, table_name, column, source_name)
    IN  IF table_name = primary_table
        THEN DictSet(data_dict, table_name, results)
        ELSE DictSet(data_dict, table_name, [i \in DOMAIN results |-> row_cleanup(results[i])])

\* a query handler that records the key of the primary table even when no
\* row matched
inventory_query_primary_recorded(s, data_dict, table_name, source_name) ==
    LET column == IF table_name = primary_table THEN primary_table_key ELSE foreign_key
        results == Query(s, table_name, column, source_name)
    IN  IF table_name = primary_table
        THEN DictSet(data_dict, table_name, results)
        ELSE IF results # << >>
        THEN DictSet(data_dict, table_name, [i \in DOMAIN results |-> row_cleanup(results[i])])
        ELSE data_dict

inventory_query(s, data_dict, table_name, source_name) ==
    LET column == IF table_name = primary_table THEN primary_table_key ELSE foreign_key
        results == Query(s, table_name, column, source_name)
    IN  IF results # << >> /\ table_name = primary_table
        THEN DictSet(data_dict, table_name, results)
        ELSE IF results # << >>
        THEN DictSet(data_dict, table_name, [i \in DOMAIN results |-> row_cleanup(results[i])])
        ELSE data_dict

\* the tables inventory loops over after the primary table
InventoryTables ==
    SelectSeq(MetadataTables, LAMBDA t : t \notin Range(reference_tables) \cup {primary_table})

RECURSIVE inventory_loop(_, _, _, _)
inventory_loop(s, data_dict, i, name) ==
    IF i > Len(InventoryTables) THEN data_dict
    ELSE inventory_loop(s, inventory_query(s, data_dict, InventoryTables[i], name), i + 1, name)

inventory(s, name) ==
    inventory_loop(s, inventory_query(s, EmptyDict, primary_table, name), 1, name)

\* ------------------------------------------------------------------------
\* The export directory
\* ------------------------------------------------------------------------
\* A file name is a sequence of characters in which the extension ".json"
\* is one element; a table name is one element as well.
JSON == ".json"
TOP == "."
reference_directory == "reference"
source_directory == "source"

\* str.lower()
LowerChar(c) ==
    CASE c = "A" -> "a" [] c = "B" -> "b" [] c = "J" -> "j"
      [] c = "M" -> "m" [] c = "S" -> "s" [] OTHER -> c
Lower(str) == [i \in DOMAIN str |-> LowerChar(str[i])]

\* str.replace(old, new) for a single character old and a string new
RECURSIVE Replace(_, _, _)
Replace(str, old, new) ==
    IF str = << >> THEN << >>
    ELSE (IF Head(str) = old THEN new ELSE <<Head(str)>>) \o Replace(Tail(str), old, new)

\* str.strip()
Whitespace == {" ", "\t", "\n"}
RECURSIVE LStrip(_)
LStrip(str) ==
    IF str # << >> /\ Head(str) \in Whitespace THEN LStrip(Tail(str)) ELSE str
RECURSIVE RStrip(_)
RStrip(str) ==
    IF str # << >> /\ str[Len(str)] \in Whitespace
    THEN RStrip(SubSeq(str, 1, Len(str) - 1)) ELSE str
Strip(str) == RStrip(LStrip(str))

\* a file name that keeps the asterisks
Filename_keeps_asterisks(source_name) ==
    Strip(Replace(Lower(source_name), " ", <<"_">>)) \o <<JSON>>

\* source_name.lower().replace(" ", "_").replace("*", "").strip() + ".json"
Filename(source_name) ==
    Strip(Replace(Replace(Lower(source_name), " ", <<"_">>), "*", << >>)) \o <<JSON>>

\* A directory: its sub-directories and its files, a file being a path
\* <<directory, name>> with the JSON text it holds.  The JSON text of a
\* value is the value itself (the rows of the model hold strings and nulls,
\* which JSON writes and reads back exactly); text that does not parse is
\* Malformed.
EmptyDir == [subdirs |-> {}, files |-> << >>]

Malformed == [ok |-> FALSE]
json_dumps(data) == [ok |-> TRUE, value |-> data]

Exists(d, sub, fname) == <<sub, fname>> \in DOMAIN d.files

\* open(path, "w").write(text)
WriteFile(d, sub, fname, text) ==
    [d EXCEPT !.files =
        [p \in (DOMAIN d.files) \cup {<<sub, fname>>} |->
            IF p = <<sub, fname>> THEN text ELSE d.files[p]]]

\* os.makedirs(path) unless os.path.isdir(path)
MakeDir(d, sub) == [d EXCEPT !.subdirs = @ \cup {sub}]

\* os.listdir(path): the names of the files of a directory (the
\* sub-directories of the top directory are listed apart, in d.subdirs)
ListFiles(d, sub) == { p[2] : p \in { q \in DOMAIN d.files : q[1] = sub } }

\* a clear_first loop that removes the files of the top directory only
ClearDirectoryFilesOnly(d) ==
    LET kept == { p \in DOMAIN d.files : p[1] # TOP }
    IN  [subdirs |-> d.subdirs, files |-> [p \in kept |-> d.files[p]]]

\* the clear_first loop of save_database: os.remove every file of the top
\* directory and shutil.rmtree every sub-directory
ClearDirectory(d) ==
    LET kept == { p \in DOMAIN d.files : p[1] # TOP /\ p[1] \notin d.subdirs }
    IN  [subdirs |-> {}, files |-> [p \in kept |-> d.files[p]]]

\* ------------------------------------------------------------------------
\* State
\* ------------------------------------------------------------------------
VARIABLES
    db,        \* the committed and uncommitted contents of the store
    dir,       \* the export directory
    pc,        \* position of the running call, "idle" between calls
    local,     \* local variables of the running call
    txn,       \* store contents at engine.begin() of the open transaction
    ret,       \* what the last call returned or raised
    log,       \* store steps of the running / last load_database call
    exported,  \* the store as it was when the last save_database began
    edits,     \* raw store writes so far
    calls,     \* save_database / load_database / add_table_data calls so far
    previous   \* how the call before the running load_database ended

vars == <<db, dir, pc, local, txn, ret, log, exported, edits, calls, previous>>

NoLocal == [idx |-> 0, todo |-> {}, file |-> << >>, data |-> EmptyDict,
            source |-> << >>, key |-> 0, row |-> 0, rows |-> << >>,
            clear_first |-> FALSE]

Ret(op, arg, value, err) == [op |-> op, arg |-> arg, value |-> value, err |-> err]
NoRet == Ret("none", << >>, EmptyDict, "none")

NotExported == [done |-> FALSE, clear_first |-> FALSE, db |-> EmptyStore]

\* previous.loaded: the call that returned just before the running
\* load_database began was a load_database that raised nothing, and
\* previous.db is the store it left
NotLoaded == [loaded |-> FALSE, db |-> EmptyStore]
Loaded(s) == [loaded |-> TRUE, db |-> s]

Init ==
    /\ db = EmptyStore
    /\ dir = EmptyDir
    /\ pc = "idle"
    /\ local = NoLocal
    /\ txn = EmptyStore
    /\ ret = NoRet
    /\ log = << >>
    /\ exported = NotExported
    /\ edits = 0
    /\ calls = 0
    /\ previous = NotLoaded

\* ------------------------------------------------------------------------
\* Raw store writes between calls (table.insert() / table.delete(), as the
\* tests populate and empty the tables)
\* ------------------------------------------------------------------------
InsertRow ==
    /\ pc = "idle"
    /\ edits < MaxEdits
    /\ \E t \in TableNames : \E r \in RowsOf(t) :
        /\ InsertOK(db, t, {r})
        /\ db' = Insert(db, t, {r})
    /\ edits' = edits + 1
    /\ ret' = NoRet
    /\ log' = << >>
    /\ UNCHANGED <<dir, pc, local, txn, exported, calls, previous>>

DeleteRow ==
    /\ pc = "idle"
    /\ edits < MaxEdits
    /\ \E t \in TableNames : \E r \in db[t] :
        /\ DeleteOK(db, t, {r})
        /\ db' = Delete(db, t, {r})
    /\ edits' = edits + 1
    /\ ret' = NoRet
    /\ log' = << >>
    /\ UNCHANGED <<dir, pc, local, txn, exported, calls, previous>>

\* ------------------------------------------------------------------------
\* inventory(name)
\* ------------------------------------------------------------------------
\* an inventory that consumes the rows it reports
InventoryWrites ==
    /\ pc = "idle"
    /\ \E name \in SourceNames :
        /\ ret' = Ret("inventory", name, inventory(db, name), "none")
        /\ db' = [t \in TableNames |->
                    IF t \in Range(InventoryTables)
                    THEN { r \in db[t] : r[foreign_key] # name } ELSE db[t]]
    /\ log' = << >>
    /\ UNCHANGED <<dir, pc, local, txn, exported, edits, calls, previous>>

Inventory ==
    /\ pc = "idle"
    /\ \E name \in SourceNames :
        ret' = Ret("inventory", name, inventory(db, name), "none")
    /\ log' = << >>
    /\ UNCHANGED <<db, dir, pc, local, txn, exported, edits, calls, previous>>

\* ------------------------------------------------------------------------
\* save_database(directory, clear_first)
\* ------------------------------------------------------------------------
\* an export that writes the file of an empty table too
save_reference_table_always(s, d, table) ==
    WriteFile(MakeDir(d, reference_directory), reference_directory, <<table, JSON>>,
              json_dumps(QueryAll(s, table)))

save_reference_table(s, d, table) ==
    LET d1 == MakeDir(d, reference_directory)
        data == QueryAll(s, table)
    IN  IF Len(data) > 0
        THEN WriteFile(d1, reference_directory, <<table, JSON>>, json_dumps(data))
        ELSE d1

\* name is a row of the primary table
save_json(s, d, name, directory) ==
    LET source_name == name[primary_table_key]
        data == inventory(s, name[primary_table_key])
    IN  WriteFile(d, directory, Filename(source_name), json_dumps(data))

\* the call and its clear_first loop (the directory itself exists)
SaveClear ==
    /\ pc = "idle"
    /\ calls < MaxCalls
    /\ \E clear_first \in BOOLEAN :
        /\ dir' = IF clear_first THEN ClearDirectory(dir) ELSE dir
        /\ local' = [NoLocal EXCEPT !.clear_first = clear_first]
        /\ exported' = [done |-> FALSE, clear_first |-> clear_first, db |-> db]
    /\ pc' = "save_mkdirs"
    /\ calls' = calls + 1
    /\ ret' = NoRet
    /\ log' = << >>
    /\ UNCHANGED <<db, txn, edits, previous>>

SaveMakeDirs ==
    /\ pc = "save_mkdirs"
    /\ dir' = MakeDir(MakeDir(dir, reference_directory), source_directory)
    /\ pc' = "save_ref"
    /\ local' = [local EXCEPT !.idx = 1]
    /\ UNCHANGED <<db, txn, ret, log, exported, edits, calls, previous>>

\* one turn of the loop over the reference tables; after the last one the
\* query over the primary table is issued
SaveReference ==
    /\ pc = "save_ref"
    /\ local.idx <= Len(reference_tables)
    /\ LET table == reference_tables[local.idx]
       IN  dir' = IF table \notin TableNames THEN dir
                  ELSE save_reference_table(db, dir, table)
    /\ IF local.idx = Len(reference_tables)
       THEN /\ pc' = "save_src"
            /\ local' = [local EXCEPT !.idx = 1, !.rows = QueryAll(db, primary_table)]
       ELSE /\ pc' = pc
            /\ local' = [local EXCEPT !.idx = @ + 1]
    /\ UNCHANGED <<db, txn, ret, log, exported, edits, calls, previous>>

\* an export that moves each source out of the store as it writes it
SaveSourceMoves ==
    /\ pc = "save_src"
    /\ local.idx <= Len(local.rows)
    /\ dir' = save_json(db, dir, local.rows[local.idx], source_directory)
    /\ db' = [db EXCEPT ![primary_table] = @ \ {local.rows[local.idx]}]
    /\ local' = [local EXCEPT !.idx = @ + 1]
    /\ UNCHANGED <<pc, txn, ret, log, exported, edits, calls, previous>>

\* one turn of the loop over the rows of the primary table
SaveSource ==
    /\ pc = "save_src"
    /\ local.idx <= Len(local.rows)
    /\ dir' = save_json(db, dir, local.rows[local.idx], source_directory)
    /\ local' = [local EXCEPT !.idx = @ + 1]
    /\ UNCHANGED <<db, pc, txn, ret, log, exported, edits, calls, previous>>

SaveReturn ==
    /\ pc = "save_src"
    /\ local.idx > Len(local.rows)
    /\ pc' = "idle"
    /\ ret' = Ret("save_database", << >>, EmptyDict, "none")
    /\ exported' = [exported EXCEPT !.done = TRUE]
    /\ local' = NoLocal
    /\ UNCHANGED <<db, dir, txn, log, edits, calls, previous>>

\* ------------------------------------------------------------------------
\* load_database(directory)
\* ------------------------------------------------------------------------
\* the tables a table refers to, itself excluded
Parents(t) == { fk[3] : fk \in { k \in ForeignKeys : k[1] = t } } \ {t}

\* table names in alphabetical order
Alphabetical == <<"Instruments", "Names", "Photometry", "Publications", "Sources", "Telescopes">>

\* metadata.sorted_tables: the tables sorted by name and then in order of
\* foreign-key dependency, a table after every table it refers to
RECURSIVE TopologicalSort(_, _)
TopologicalSort(sorted, remaining) ==
    IF remaining = {} THEN sorted
    ELSE LET ready == { t \in remaining : Parents(t) \subseteq Range(sorted) }
             from  == IF ready = {} THEN remaining ELSE ready
             first == CHOOSE i \in DOMAIN Alphabetical :
                        /\ Alphabetical[i] \in from
                        /\ \A j \in DOMAIN Alphabetical : Alphabetical[j] \in from => i <= j
         IN  TopologicalSort(Append(sorted, Alphabetical[first]), remaining \ {Alphabetical[first]})

sorted_tables == TopologicalSort(<< >>, TableNames)

Reversed(seq) == [i \in DOMAIN seq |-> seq[Len(seq) + 1 - i]]

\* a clearing loop that forgets reversed()
ClearOrderForward == sorted_tables

\* the order in which load_database clears the tables
ClearOrder == Reversed(sorted_tables)

\* one store step of load_database: the rows of table name it deleted
\* ("clear"), loaded from a reference file ("ref") or inserted from a source
\* file ("src")
LogEntry(kind, name, n) == [kind |-> kind, name |-> name, n |-> n]

\* the call raises: an open transaction is rolled back by the caller of Raise
Raise(err) ==
    /\ pc' = "idle"
    /\ ret' = Ret("load_database", << >>, EmptyDict, err)
    /\ local' = NoLocal
    /\ txn' = EmptyStore

\* a load that forgets to clear the tables
LoadBeginNoClear ==
    /\ pc = "idle"
    /\ calls < MaxCalls
    /\ pc' = "load_ref"
    /\ local' = [NoLocal EXCEPT !.idx = 1]
    /\ calls' = calls + 1
    /\ ret' = NoRet
    /\ log' = << >>
    /\ previous' = IF ret.op = "load_database" /\ ret.err = "none"
                    THEN Loaded(db) ELSE NotLoaded
    /\ UNCHANGED <<db, dir, txn, exported, edits>>

LoadBegin ==
    /\ pc = "idle"
    /\ calls < MaxCalls
    /\ pc' = "load_clear"
    /\ local' = [NoLocal EXCEPT !.idx = 1]
    /\ calls' = calls + 1
    /\ ret' = NoRet
    /\ log' = << >>
    /\ previous' = IF ret.op = "load_database" /\ ret.err = "none"
                    THEN Loaded(db) ELSE NotLoaded
    /\ UNCHANGED <<db, dir, txn, exported, edits>>

\* a loop that leaves the rows of the last table it comes to
LoadClearKeepsRows ==
    /\ pc = "load_clear"
    /\ local.idx <= Len(ClearOrder)
    /\ LET table == ClearOrder[local.idx]
       IN  IF DeleteOK(db, table, db[table])
           THEN /\ db' = IF local.idx = Len(ClearOrder) THEN db
                         ELSE Delete(db, table, db[table])
                /\ log' = Append(log, LogEntry("clear", table, Cardinality(db[table])))
                /\ IF local.idx = Len(ClearOrder)
                   THEN pc' = "load_ref" /\ local' = [local EXCEPT !.idx = 1]
                   ELSE pc' = pc /\ local' = [local EXCEPT !.idx = @ + 1]
                /\ UNCHANGED <<txn, ret>>
           ELSE /\ Raise("IntegrityError on DELETE")
                /\ UNCHANGED <<db, log>>
    /\ UNCHANGED <<dir, exported, edits, calls, previous>>

\* one turn of the loop that deletes the rows of every table
LoadClear ==
    /\ pc = "load_clear"
    /\ local.idx <= Len(ClearOrder)
    /\ LET table == ClearOrder[local.idx]
       IN  IF DeleteOK(db, table, db[table])
           THEN /\ db' = Delete(db, table, db[table])
                /\ log' = Append(log, LogEntry("clear", table, Cardinality(db[table])))
                /\ IF local.idx = Len(ClearOrder)
                   THEN pc' = "load_ref" /\ local' = [local EXCEPT !.idx = 1]
                   ELSE pc' = pc /\ local' = [local EXCEPT !.idx = @ + 1]
                /\ UNCHANGED <<txn, ret>>
           ELSE /\ Raise("IntegrityError on DELETE")
                /\ UNCHANGED <<db, log>>
    /\ UNCHANGED <<dir, exported, edits, calls, previous>>

\* os.listdir(directory): the top directory lists its sub-directories too
ListDir(d, sub) ==
    ListFiles(d, sub) \cup (IF sub = TOP THEN { <<x>> : x \in d.subdirs } ELSE {})

\* load_table(table, directory) finds no file and does nothing
LoadTableSkips(d, table, sub) == ~Exists(d, sub, <<table, JSON>>)

\* the error load_table(table, directory) raises on the file it finds
LoadTableError(s, d, table, sub) ==
    LET text == d.files[<<sub, <<table, JSON>>>>]
    IN  IF ~text.ok THEN "JSONDecodeError"
        ELSE IF table \notin TableNames THEN "KeyError"
        ELSE IF ~InsertOK(s, table, Range(text.value)) THEN "IntegrityError"
        ELSE "none"

\* the store after load_table(table, directory) inserted the rows of the file
load_table(s, d, table, sub) ==
    Insert(s, table, Range(d.files[<<sub, <<table, JSON>>>>].value))

\* a lookup that prefers the file of the top directory
reference_path_top_first(d, table) ==
    IF Exists(d, TOP, <<table, JSON>>) THEN TOP ELSE reference_directory

\* the directory load_database hands to load_table: the reference
\* sub-directory if it holds the file of the table, else the top directory
reference_path(d, table) ==
    IF Exists(d, reference_directory, <<table, JSON>>) THEN reference_directory ELSE TOP

\* one turn of the loop over the reference tables; after the last one the
\* directory of the sources is chosen and listed
LoadReference ==
    /\ pc = "load_ref"
    /\ local.idx <= Len(reference_tables)
    /\ LET table == reference_tables[local.idx]
           sub == reference_path(dir, table)
           directory_of_sources ==
                  IF source_directory \in dir.subdirs THEN source_directory ELSE TOP
       IN  IF ~LoadTableSkips(dir, table, sub) /\ LoadTableError(db, dir, table, sub) # "none"
           THEN /\ Raise(LoadTableError(db, dir, table, sub))
                /\ UNCHANGED <<db, log>>
           ELSE /\ db' = IF LoadTableSkips(dir, table, sub) THEN db
                         ELSE load_table(db, dir, table, sub)
                /\ log' = Append(log, LogEntry("ref", table,
                                IF LoadTableSkips(dir, table, sub) THEN 0
                                ELSE Len(dir.files[<<sub, <<table, JSON>>>>].value)))
                /\ IF local.idx = Len(reference_tables)
                   THEN /\ pc' = "load_src"
                        /\ local' = [local EXCEPT !.idx = 1,
                                        !.todo = ListDir(dir, directory_of_sources)]
                   ELSE /\ pc' = pc
                        /\ local' = [local EXCEPT !.idx = @ + 1]
                /\ UNCHANGED <<txn, ret>>
    /\ UNCHANGED <<dir, exported, edits, calls, previous>>

\* file.replace(".json", "")
core_name(file) == SelectSeq(file, LAMBDA c : c # JSON)

\* file.startswith(".")
StartsWithDot(file) == file # << >> /\ Head(file) \in {".", JSON}

\* file.endswith(".json")
EndsWithJson(file) == file # << >> /\ file[Len(file)] = JSON

\* the loop over the listed files passes over this one
SkipsFile(file) ==
    \/ core_name(file) \in { <<t>> : t \in Range(reference_tables) }
    \/ ~EndsWithJson(file)
    \/ StartsWithDot(file)

\* the error the first lines of load_json raise on the parsed text
LoadJsonError(text) ==
    IF ~text.ok THEN "JSONDecodeError"
    ELSE IF primary_table \notin DOMAIN text.value THEN "KeyError"
    ELSE IF text.value[primary_table] = << >> THEN "IndexError"
    ELSE "none"

\* the (table, row) pairs the loops of load_json insert after the primary
\* rows, in order, the foreign key set in every row (the keys of a document
\* written by save_json are in the order inventory recorded them)
RECURSIVE ChildInserts(_, _, _)
ChildInserts(data, source, i) ==
    IF i > Len(InventoryTables) THEN << >>
    ELSE LET key == InventoryTables[i]
             value == IF key \in DOMAIN data THEN data[key] ELSE << >>
         IN  [j \in DOMAIN value |->
                 [table |-> key, row |-> DictSet(value[j], foreign_key, source)]]
             \o ChildInserts(data, source, i + 1)

\* a loop that passes over a file that does not parse and goes on
LoadNextFileSkipsMalformed ==
    /\ pc = "load_src"
    /\ \E file \in local.todo :
        LET sub == IF source_directory \in dir.subdirs THEN source_directory ELSE TOP
            text == dir.files[<<sub, file>>]
        IN  IF SkipsFile(file)
            THEN /\ local' = [local EXCEPT !.todo = @ \ {file}]
                 /\ UNCHANGED <<pc, ret, txn>>
            ELSE IF LoadJsonError(text) = "JSONDecodeError"
            THEN /\ local' = [local EXCEPT !.todo = @ \ {file}]
                 /\ UNCHANGED <<pc, ret, txn>>
            ELSE IF LoadJsonError(text) # "none"
            THEN Raise(LoadJsonError(text))
            ELSE /\ pc' = "json_primary"
                 /\ local' = [local EXCEPT
                        !.todo = @ \ {file},
                        !.file = file,
                        !.data = text.value,
                        !.source = text.value[primary_table][1][primary_table_key],
                        !.rows = ChildInserts(text.value,
                                    text.value[primary_table][1][primary_table_key], 1),
                        !.idx = 1]
                 /\ UNCHANGED <<ret, txn>>
    /\ UNCHANGED <<db, dir, log, exported, edits, calls, previous>>

\* one turn of the loop over the listed files (in any order), up to the
\* first line of load_json's transaction
\* a load_json that inserts the first child row before it looks for the
\* primary entry
LoadNextFileInsertsFirst ==
    /\ pc = "load_src"
    /\ \E file \in local.todo :
        LET sub == IF source_directory \in dir.subdirs THEN source_directory ELSE TOP
            text == dir.files[<<sub, file>>]
        IN  IF SkipsFile(file)
            THEN /\ local' = [local EXCEPT !.todo = @ \ {file}]
                 /\ UNCHANGED <<pc, ret, txn, db, log>>
            ELSE IF LoadJsonError(text) \in {"KeyError", "IndexError"}
            THEN LET rows == ChildInserts(text.value, << >>, 1)
                 IN  /\ db' = IF rows = << >> THEN db
                              ELSE [db EXCEPT ![rows[1].table] = @ \cup {rows[1].row}]
                     /\ log' = log
                     /\ Raise(LoadJsonError(text))
            ELSE IF LoadJsonError(text) # "none"
            THEN Raise(LoadJsonError(text)) /\ UNCHANGED <<db, log>>
            ELSE /\ pc' = "json_primary"
                 /\ local' = [local EXCEPT
                        !.todo = @ \ {file},
                        !.file = file,
                        !.data = text.value,
                        !.source = text.value[primary_table][1][primary_table_key],
                        !.rows = ChildInserts(text.value,
                                    text.value[primary_table][1][primary_table_key], 1),
                        !.idx = 1]
                 /\ UNCHANGED <<ret, txn, db, log>>
    /\ UNCHANGED <<dir, exported, edits, calls, previous>>

LoadNextFile ==
    /\ pc = "load_src"
    /\ \E file \in local.todo :
        LET sub == IF source_directory \in dir.subdirs THEN source_directory ELSE TOP
            text == dir.files[<<sub, file>>]
        IN  IF SkipsFile(file)
            THEN /\ local' = [local EXCEPT !.todo = @ \ {file}]
                 /\ UNCHANGED <<pc, ret, txn>>
            ELSE IF LoadJsonError(text) # "none"
            THEN Raise(LoadJsonError(text))
            ELSE /\ pc' = "json_primary"
                 /\ local' = [local EXCEPT
                        !.todo = @ \ {file},
                        !.file = file,
                        !.data = text.value,
                        !.source = text.value[primary_table][1][primary_table_key],
                        !.rows = ChildInserts(text.value,
                                    text.value[primary_table][1][primary_table_key], 1),
                        !.idx = 1]
                 /\ UNCHANGED <<ret, txn>>
    /\ UNCHANGED <<db, dir, log, exported, edits, calls, previous>>

\* a load_json that goes on to the other tables without the primary rows
JsonInsertPrimarySkipped ==
    /\ pc = "json_primary"
    /\ txn' = db
    /\ pc' = "json_child"
    /\ UNCHANGED <<db, local, ret, log, previous>>
    /\ UNCHANGED <<dir, exported, edits, calls, previous>>

\* engine.begin() and the insert of the primary rows
JsonInsertPrimary ==
    /\ pc = "json_primary"
    /\ LET rows == Range(local.data[primary_table])
       IN  IF InsertOK(db, primary_table, rows)
           THEN /\ txn' = db
                /\ db' = Insert(db, primary_table, rows)
                /\ pc' = "json_child"
                /\ log' = Append(log, LogEntry("src", primary_table, Cardinality(rows)))
                /\ UNCHANGED <<local, ret>>
           ELSE /\ Raise("IntegrityError")
                /\ UNCHANGED <<db, log>>
    /\ UNCHANGED <<dir, exported, edits, calls, previous>>

\* a load_json that keeps the rows inserted before the failing one
JsonInsertChildKeeps ==
    /\ pc = "json_child"
    /\ local.idx <= Len(local.rows)
    /\ LET ins == local.rows[local.idx]
       IN  IF InsertOK(db, ins.table, {ins.row})
           THEN /\ db' = Insert(db, ins.table, {ins.row})
                /\ local' = [local EXCEPT !.idx = @ + 1]
                /\ log' = Append(log, LogEntry("src", ins.table, 1))
                /\ UNCHANGED <<pc, txn, ret>>
           ELSE /\ db' = db
                /\ Raise("IntegrityError")
                /\ UNCHANGED log
    /\ UNCHANGED <<dir, exported, edits, calls, previous>>

\* the insert of one row of another table; a failure rolls the file back
JsonInsertChild ==
    /\ pc = "json_child"
    /\ local.idx <= Len(local.rows)
    /\ LET ins == local.rows[local.idx]
       IN  IF InsertOK(db, ins.table, {ins.row})
           THEN /\ db' = Insert(db, ins.table, {ins.row})
                /\ local' = [local EXCEPT !.idx = @ + 1]
                /\ log' = Append(log, LogEntry("src", ins.table, 1))
                /\ UNCHANGED <<pc, txn, ret>>
           ELSE /\ db' = txn
                /\ Raise("IntegrityError")
                /\ UNCHANGED log
    /\ UNCHANGED <<dir, exported, edits, calls, previous>>

\* the end of load_json's transaction
JsonCommit ==
    /\ pc = "json_child"
    /\ local.idx > Len(local.rows)
    /\ pc' = "load_src"
    /\ txn' = EmptyStore
    /\ local' = [local EXCEPT !.file = << >>, !.data = EmptyDict, !.source = << >>,
                              !.rows = << >>, !.idx = 1]
    /\ UNCHANGED <<db, dir, ret, log, exported, edits, calls, previous>>

LoadReturn ==
    /\ pc = "load_src"
    /\ local.todo = {}
    /\ pc' = "idle"
    /\ ret' = Ret("load_database", << >>, EmptyDict, "none")
    /\ local' = NoLocal
    /\ UNCHANGED <<db, dir, txn, log, exported, edits, calls, previous>>

Next ==
    \/ InsertRow \/ DeleteRow \/ Inventory
    \/ SaveClear \/ SaveMakeDirs \/ SaveReference \/ SaveSource \/ SaveReturn
    \/ LoadBegin \/ LoadClear \/ LoadReference \/ LoadNextFile
    \/ JsonInsertPrimary \/ JsonInsertChild \/ JsonCommit \/ LoadReturn

Spec == Init /\ [][Next]_vars

\* ------------------------------------------------------------------------
\* The file-name rule on arbitrary identifiers: save_database over a store
\* that holds one source, whose identifier is any short string of
\* upper-case and lower-case letters, spaces, underscores, asterisks and
\* tabs, or the identifier of the tests
\* ------------------------------------------------------------------------
NameAlphabet == {"A", "b", " ", "_", "*", "\t"}

TestSource ==
    <<"2", "M", "A", "S", "S", " ", "J", "1", "3", "5", "7", "1", "2", "3", "7",
      "+", "1", "4", "2", "8", "3", "9", "8">>

NamePool == UNION { [1..n -> NameAlphabet] : n \in 1..MaxNameLen } \cup {TestSource}

InitSlug ==
    /\ \E source \in NamePool :
        db = [EmptyStore EXCEPT
                !["Publications"] = {[name |-> "Schm10"]},
                ![primary_table] = {[source |-> source, reference |-> "Schm10"]}]
    /\ dir = EmptyDir
    /\ pc = "idle"
    /\ local = NoLocal
    /\ txn = EmptyStore
    /\ ret = NoRet
    /\ log = << >>
    /\ exported = NotExported
    /\ edits = 0
    /\ calls = 0
    /\ previous = NotLoaded

NextSlug == SaveClear \/ SaveMakeDirs \/ SaveReference \/ SaveSource \/ SaveReturn

SpecSlug == InitSlug /\ [][NextSlug]_vars

\* ------------------------------------------------------------------------
\* Database(connection_string): construction over a store that has no
\* tables (db is the empty function) or has the tables of schema.py
\* ------------------------------------------------------------------------
NoTables == << >>

\* a constructor that hands out a handle whatever it finds
Database_init_unchecked ==
    /\ pc = "new"
    /\ pc' = "idle"
    /\ ret' = Ret("Database", << >>, EmptyDict, "none")
    /\ UNCHANGED <<db, dir, local, txn, log, exported, edits, calls, previous>>

\* __init__: reflect the tables of the store, raise if there is none
Database_init ==
    /\ pc = "new"
    /\ IF Cardinality(DOMAIN db) = 0
       THEN /\ pc' = "failed"
            /\ ret' = Ret("Database", << >>, EmptyDict, "RuntimeError: Create database first.")
       ELSE /\ pc' = "idle"
            /\ ret' = Ret("Database", << >>, EmptyDict, "none")
    /\ UNCHANGED <<db, dir, local, txn, log, exported, edits, calls, previous>>

InitConstruct ==
    /\ db \in {NoTables, EmptyStore}
    /\ dir = EmptyDir
    /\ pc = "new"
    /\ local = NoLocal
    /\ txn = EmptyStore
    /\ ret = NoRet
    /\ log = << >>
    /\ exported = NotExported
    /\ edits = 0
    /\ calls = 0
    /\ previous = NotLoaded

NextConstruct == Database_init \/ InsertRow \/ DeleteRow \/ Inventory

SpecConstruct == InitConstruct /\ [][NextConstruct]_vars

\* ------------------------------------------------------------------------
\* load_database over directories a user put together: reference files in
\* the reference sub-directory or, as older exports had them, in the top
\* directory; source documents, hidden files, files that are not JSON and
\* files that do not parse; over a store that is empty or holds rows
\* ------------------------------------------------------------------------
File(sub, name, text) == [path |-> <<sub, name>>, text |-> text]

AB == <<"a", "_", "b">>
BStar == <<"b", "*">>

\* a document as save_json writes it
DocAB ==
    [t \in {primary_table, "Names"} |->
        IF t = primary_table THEN <<[source |-> AB, reference |-> "Schm10"]>>
        ELSE <<[other_name |-> "n1"]>>]

\* a document whose Photometry row needs the telescope WISE
DocBStar ==
    [t \in {primary_table, "Names", "Photometry"} |->
        CASE t = primary_table -> <<[source |-> BStar, reference |-> "Schm10"]>>
          [] t = "Names" -> <<[other_name |-> "n2"]>>
          [] t = "Photometry" -> <<[band |-> "W1", telescope |-> "WISE",
                                    instrument |-> NULL, reference |-> "Schm10"]>>]

\* a document with child rows and no entry for the primary table
DocNoPrimary == [t \in {"Names"} |-> <<[other_name |-> "n3"]>>]

\* a document whose entry for the primary table is the empty list
DocEmptyPrimary ==
    [t \in {primary_table, "Names"} |->
        IF t = primary_table THEN << >> ELSE <<[other_name |-> "n3"]>>]

FilePool ==
    << File(reference_directory, <<"Publications", JSON>>,
            json_dumps(<<[name |-> "Schm10"], [name |-> "Cutr12"]>>)),
       File(TOP, <<"Publications", JSON>>, json_dumps(<<[name |-> "Cutr12"]>>)),
       File(reference_directory, <<"Telescopes", JSON>>,
            json_dumps(<<[name |-> "WISE", reference |-> "Schm10"]>>)),
       File(TOP, <<"Telescopes", JSON>>, json_dumps(<<[name |-> "WISE", reference |-> NULL]>>)),
       File(source_directory, <<"a", "_", "b", JSON>>, json_dumps(DocAB)),
       File(source_directory, <<"b", JSON>>, json_dumps(DocBStar)),
       File(source_directory, <<"x", JSON>>, Malformed),
       File(source_directory, <<".", "h", JSON>>, Malformed),
       File(source_directory, <<"n", ".txt">>, Malformed),
       File(source_directory, <<"Publications", JSON, JSON>>, json_dumps(DocAB)),
       File(source_directory, <<"Telescopes", JSON>>,
            json_dumps(<<[name |-> "WISE", reference |-> NULL]>>)),
       File(TOP, <<"a", "_", "b", JSON>>, json_dumps(DocAB)),
       File(TOP, <<"x", JSON>>, Malformed),
       \* save_json("z", directory) on a store that has no source z
       File(source_directory, Filename(<<"z">>), json_dumps(inventory(EmptyStore, <<"z">>))),
       File(source_directory, <<"o", JSON>>, json_dumps(DocNoPrimary)),
       File(source_directory, <<"e", JSON>>, json_dumps(DocEmptyPrimary)) >>

\* the directory that holds the files numbered fs of the pool and the
\* sub-directories subs
Directory(fs, subs) ==
    [subdirs |-> subs,
     files |-> [p \in { FilePool[i].path : i \in fs } |->
                    FilePool[CHOOSE i \in fs : FilePool[i].path = p].text]]

\* every file of a sub-directory lies in a sub-directory that exists
WellFormed(d) == \A p \in DOMAIN d.files : p[1] = TOP \/ p[1] \in d.subdirs

PopulatedStore ==
    [EmptyStore EXCEPT
        !["Publications"] = {[name |-> "Cutr12"]},
        ![primary_table] = {[source |-> BStar, reference |-> "Cutr12"]},
        !["Names"] = {[source |-> BStar, other_name |-> "n2"]}]

InitFiles ==
    /\ db \in {EmptyStore, PopulatedStore}
    /\ \E fs \in SUBSET DOMAIN FilePool :
       \E subs \in SUBSET {reference_directory, source_directory} :
        /\ Cardinality(fs) <= MaxFiles
        /\ WellFormed(Directory(fs, subs))
        /\ dir = Directory(fs, subs)
    /\ pc = "idle"
    /\ local = NoLocal
    /\ txn = EmptyStore
    /\ ret = NoRet
    /\ log = << >>
    /\ exported = NotExported
    /\ edits = 0
    /\ calls = 0
    /\ previous = NotLoaded

NextFiles ==
    \/ LoadBegin \/ LoadClear \/ LoadReference \/ LoadNextFile
    \/ JsonInsertPrimary \/ JsonInsertChild \/ JsonCommit \/ LoadReturn

SpecFiles == InitFiles /\ [][NextFiles]_vars

\* ------------------------------------------------------------------------
\* add_table_data(data, table): the rows of a table of any of the formats,
\* to be inserted into one table of the store
\* ------------------------------------------------------------------------
\* the non-empty inputs of at most n rows drawn from rows
RECURSIVE Batches(_, _)
Batches(rows, n) ==
    IF n = 0 THEN {}
    ELSE { {r} : r \in rows } \cup { b \cup {r} : b \in Batches(rows, n - 1), r \in rows }

\* df[self._foreign_key].to_list()
source_list(data) == { r[foreign_key] : r \in data }

\* query(primary_column).filter(primary_column.in_(source_list)).all()
matched_sources(s, data) ==
    { x \in { r[primary_table_key] : r \in s[primary_table] } : x \in source_list(data) }

\* a check that finds nothing missing
missing_sources_none(s, data) == {}

\* np.setdiff1d(source_list, matched_sources)
missing_sources(s, data) == source_list(data) \ matched_sources(s, data)

\* what add_table_data raises
add_table_data_error(s, data, table) ==
    IF table # primary_table /\ \E r \in data : foreign_key \notin DOMAIN r
    THEN "KeyError"
    ELSE IF table # primary_table /\ Cardinality(missing_sources(s, data)) > 0
    THEN "RuntimeError: missing entries"
    ELSE IF ~InsertOK(s, table, data) THEN "IntegrityError"
    ELSE "none"

\* the rows handed to add_table_data: those of RowsOf, the Photometry rows
\* without telescope and instrument
InputRowsOf(table) ==
    IF table = "Photometry"
    THEN { r \in RowsOf(table) : r.telescope = NULL /\ r.instrument = NULL }
    ELSE RowsOf(table)

\* the whole call; the insert is one statement in a transaction of its own.
\* ret records the table and, under foreign_key, the values the input has
\* in that column.
AddTableData ==
    /\ pc = "idle"
    /\ calls < MaxCalls
    /\ \E table \in TableNames : \E data \in Batches(InputRowsOf(table), MaxBatch) :
        LET err == add_table_data_error(db, data, table)
        IN  /\ ret' = Ret("add_table_data", <<table>>,
                          IF err = "KeyError" THEN EmptyDict
                          ELSE [k \in {foreign_key} |-> source_list(data)], err)
            /\ db' = IF err = "none" THEN Insert(db, table, data) ELSE db
    /\ calls' = calls + 1
    /\ log' = << >>
    /\ UNCHANGED <<dir, pc, local, txn, exported, edits, previous>>

InitAdd ==
    /\ db \in {EmptyStore, PopulatedStore}
    /\ dir = EmptyDir
    /\ pc = "idle"
    /\ local = NoLocal
    /\ txn = EmptyStore
    /\ ret = NoRet
    /\ log = << >>
    /\ exported = NotExported
    /\ edits = 0
    /\ calls = 0
    /\ previous = NotLoaded

NextAdd == AddTableData \/ Inventory

SpecAdd == InitAdd /\ [][NextAdd]_vars

\* ------------------------------------------------------------------------
\* The JSON codec of save_json and load_json: json.dumps with
\* default=json_serializer and json.load with object_hook=
\* datetime_json_parser.  A Python value is a record of its type and its
\* content; a text is a sequence of tokens (a year, a two-digit number, a
\* separator, a letter).  A JSON value is a string, an integer, a boolean
\* or null.
\* ------------------------------------------------------------------------
Years == {"2020"}
TwoDigits == {"01"}
TextAlphabet == Years \cup TwoDigits \cup {"-", "x"}

PyStr(text) == [type |-> "str", v |-> text]
PyInt(n) == [type |-> "int", v |-> <<n>>]
PyBool(b) == [type |-> "bool", v |-> <<b>>]
PyNone == [type |-> "null", v |-> << >>]
PyDate(y, m, d) == [type |-> "date", v |-> <<y, m, d>>]
PyDateTime(y, m, d, H, M, S) == [type |-> "datetime", v |-> <<y, m, d, H, M, S>>]

\* date.isoformat() / datetime.isoformat()
isoformat(obj) ==
    IF obj.type = "date"
    THEN <<obj.v[1], "-", obj.v[2], "-", obj.v[3]>>
    ELSE <<obj.v[1], "-", obj.v[2], "-", obj.v[3], "T", obj.v[4], ":", obj.v[5], ":", obj.v[6]>>

\* the default= hook of json.dumps: a date or a datetime becomes the JSON
\* string of its ISO-8601 form
json_serializer(obj) == PyStr(isoformat(obj))

\* the JSON value json.dumps writes for a value of a row
json_value(obj) ==
    IF obj.type \in {"date", "datetime"} THEN json_serializer(obj) ELSE obj

\* the recognised forms: YYYY-MM-DD and YYYY-MM-DDTHH:MM:SS
IsDateText(text) ==
    /\ Len(text) = 5
    /\ text[1] \in Years /\ text[2] = "-" /\ text[3] \in TwoDigits
    /\ text[4] = "-" /\ text[5] \in TwoDigits

IsDateTimeText(text) ==
    /\ Len(text) = 11
    /\ IsDateText(SubSeq(text, 1, 5))
    /\ text[6] = "T" /\ text[7] \in TwoDigits /\ text[8] = ":"
    /\ text[9] \in TwoDigits /\ text[10] = ":" /\ text[11] \in TwoDigits

\* what the object_hook of json.load puts in place of a value of a parsed
\* row: a string in one of the recognised forms becomes the date or the
\* datetime it writes, anything else stays
parsed_value(jv) ==
    IF jv.type = "str" /\ IsDateText(jv.v)
    THEN PyDate(jv.v[1], jv.v[3], jv.v[5])
    ELSE IF jv.type = "str" /\ IsDateTimeText(jv.v)
    THEN PyDateTime(jv.v[1], jv.v[3], jv.v[5], jv.v[7], jv.v[9], jv.v[11])
    ELSE jv

\* the object_hook, applied to every row of the parsed document
datetime_json_parser(json_dict) == [k \in DOMAIN json_dict |-> parsed_value(json_dict[k])]

\* json.dumps(data, indent=4, default=json_serializer) of a document
json_dumps_document(data) ==
    [ok |-> TRUE,
     value |-> [t \in DOMAIN data |->
                  [i \in DOMAIN data[t] |->
                      [k \in DOMAIN data[t][i] |-> json_value(data[t][i][k])]]]]

\* json.load(f, object_hook=datetime_json_parser) of the text of a document
json_load_document(text) ==
    [t \in DOMAIN text.value |->
        [i \in DOMAIN text.value[t] |-> datetime_json_parser(text.value[t][i])]]

\* the texts of at most MaxTextLen tokens, and the ISO form of a datetime
Texts ==
    UNION { [1..n -> TextAlphabet] : n \in 0..MaxTextLen }
    \cup {isoformat(PyDateTime("2020", "01", "01", "01", "01", "01"))}

\* the values of a column that is not a text column
OtherValues ==
    << PyInt("7"), PyBool("true"), PyNone, PyDate("2020", "01", "01"),
       PyDateTime("2020", "01", "01", "01", "01", "01") >>

\* the document of a source with one Photometry row: epoch and comments
\* are text columns of schema.py, the third value is of any other type
Document(epoch, comments, other) ==
    [t \in {primary_table, "Photometry"} |->
        IF t = primary_table
        THEN <<[source |-> PyStr(<<"x">>), reference |-> PyStr(<<"x">>),
                comments |-> comments, shortname |-> other]>>
        ELSE <<[band |-> PyStr(<<"x">>), reference |-> PyStr(<<"x">>),
                epoch |-> epoch, magnitude |-> other]>>]

CodecFile == <<"x", JSON>>

InitCodec ==
    /\ \E epoch \in Texts : \E comments \in {<< >>, epoch} : \E i \in DOMAIN OtherValues :
        local = [NoLocal EXCEPT
                    !.data = Document(PyStr(epoch), PyStr(comments), OtherValues[i])]
    /\ db = EmptyStore
    /\ dir = [subdirs |-> {source_directory}, files |-> << >>]
    /\ pc = "idle"
    /\ txn = EmptyStore
    /\ ret = NoRet
    /\ log = << >>
    /\ exported = NotExported
    /\ edits = 0
    /\ calls = 0
    /\ previous = NotLoaded

\* the last two lines of save_json, on the document at hand
CodecWrite ==
    /\ pc = "idle"
    /\ dir' = WriteFile(dir, source_directory, CodecFile, json_dumps_document(local.data))
    /\ pc' = "written"
    /\ UNCHANGED <<db, local, txn, ret, log, exported, edits, calls, previous>>

\* the first two lines of load_json, on the file written
CodecRead ==
    /\ pc = "written"
    /\ ret' = Ret("load_json", CodecFile,
                  json_load_document(dir.files[<<source_directory, CodecFile>>]), "none")
    /\ pc' = "read"
    /\ UNCHANGED <<db, dir, local, txn, log, exported, edits, calls, previous>>

NextCodec == CodecWrite \/ CodecRead

SpecCodec == InitCodec /\ [][NextCodec]_vars

\* ------------------------------------------------------------------------
\* save_database over any store and any directory, completed or failed
\* (specification SpecSave)
\* ------------------------------------------------------------------------
\* os.makedirs(), open() or f.write() raises in the middle of the export:
\* the exception leaves save_database, the files written so far stay
SaveFail ==
    /\ pc \in {"save_mkdirs", "save_ref", "save_src"}
    /\ pc' = "idle"
    /\ ret' = Ret("save_database", << >>, EmptyDict, "OSError")
    /\ local' = NoLocal
    /\ UNCHANGED <<db, dir, txn, log, exported, edits, calls, previous>>

InitSave ==
    /\ db \in {EmptyStore, PopulatedStore}
    /\ \E fs \in SUBSET DOMAIN FilePool :
       \E subs \in SUBSET {reference_directory, source_directory} :
        /\ Cardinality(fs) <= MaxFiles
        /\ WellFormed(Directory(fs, subs))
        /\ dir = Directory(fs, subs)
    /\ pc = "idle"
    /\ local = NoLocal
    /\ txn = EmptyStore
    /\ ret = NoRet
    /\ log = << >>
    /\ exported = NotExported
    /\ edits = 0
    /\ calls = 0
    /\ previous = NotLoaded

NextSave ==
    \/ SaveClear
    \/ SaveMakeDirs
    \/ SaveReference
    \/ SaveSource
    \/ SaveReturn
    \/ SaveFail

SpecSave == InitSave /\ [][NextSave]_vars

\* ------------------------------------------------------------------------
\* Properties
\* ------------------------------------------------------------------------
\* the call that returned last
Returned(op) == pc = "idle" /\ ret.op = op

\* the rows of a document under a table name, none when the key is absent
DocRows(doc, t) == IF t \in DOMAIN doc THEN doc[t] ELSE << >>

\* the primary-key values held by the primary table of a store
SourcesOf(s) == { r[primary_table_key] : r \in s[primary_table] }

\* C1: export/import round trip.  When load_database has run on the
\* directory a completed save_database (clear_first left at its default)
\* wrote, it succeeded and inventory(x) on the reloaded store equals
\* inventory(x) on the store as exported, for every source x of the export.
C1_RoundTrip ==
    (Returned("load_database") /\ exported.done /\ exported.clear_first) =>
        /\ ret.err = "none"
        /\ \A x \in SourcesOf(exported.db) : inventory(db, x) = inventory(exported.db, x)

\* C2: foreign-key stripping.  In the document inventory returned, no row
\* under a key other than the primary table has the foreign_key column and
\* every row under the primary table has the primary_key column.
C2_ForeignKeyStripped ==
    ret.op = "inventory" =>
        \A t \in DOMAIN ret.value : \A i \in DOMAIN ret.value[t] :
            IF t = primary_table
            THEN primary_table_key \in DOMAIN ret.value[t][i]
            ELSE foreign_key \notin DOMAIN ret.value[t][i]

C2_Witness ==
    /\ ret.op = "inventory"
    /\ primary_table \in DOMAIN ret.value
    /\ "Names" \in DOMAIN ret.value
    /\ "Photometry" \in DOMAIN ret.value

\* C3: sparse keys.  The document inventory(x) returned has no key for a
\* table other than the primary one in which no row has foreign_key = x,
\* and none of its keys other than the primary table maps to an empty
\* sequence.
C3_SparseKeys ==
    ret.op = "inventory" =>
        /\ \A t \in Range(InventoryTables) :
            (\A r \in db[t] : r[foreign_key] # ret.arg) => t \notin DOMAIN ret.value
        /\ \A t \in (DOMAIN ret.value) \ {primary_table} : ret.value[t] # << >>

C3_Witness ==
    /\ ret.op = "inventory"
    /\ DOMAIN ret.value = {primary_table, "Names"}

\* C4 as stated: inventory(x) for an x that matches no primary row returns
\* a document whose only key is the primary table, mapped to the empty
\* sequence.
C4_PrimaryKeyRecordedEmpty ==
    (ret.op = "inventory" /\ ret.arg \notin SourcesOf(db)) =>
        /\ primary_table \in DOMAIN ret.value
        /\ ret.value[primary_table] = << >>
        /\ DOMAIN ret.value \subseteq {primary_table}

\* C4 as amended: inventory(x) for an x that matches no primary row returns
\* the document with no keys at all: the primary table is left out like any
\* other table without a matching row, and there are no other entries.
C4_NoKeysAtAll ==
    (ret.op = "inventory" /\ ret.arg \notin SourcesOf(db)) =>
        DOMAIN ret.value = {}

C4_Witness ==
    /\ ret.op = "inventory"
    /\ ret.arg \notin SourcesOf(db)
    /\ db["Names"] # {}

\* C5: completeness and scoping.  The document inventory(x) returned holds
\* under the primary table exactly the rows with primary_key = x, under
\* every other data table exactly the rows with foreign_key = x (the column
\* removed), each once, and has no key that is a reference table.
C5_CompleteAndScoped ==
    ret.op = "inventory" =>
        /\ (DOMAIN ret.value) \cap Range(reference_tables) = {}
        /\ DOMAIN ret.value \subseteq TableNames
        /\ Range(DocRows(ret.value, primary_table))
             = { r \in db[primary_table] : r[primary_table_key] = ret.arg }
        /\ \A t \in Range(InventoryTables) :
            LET mine == { r \in db[t] : r[foreign_key] = ret.arg }
            IN  /\ { DictSet(row, foreign_key, ret.arg) : row \in Range(DocRows(ret.value, t)) } = mine
                /\ Len(DocRows(ret.value, t)) = Cardinality(mine)

C5_Witness ==
    /\ ret.op = "inventory"
    /\ DOMAIN ret.value = {primary_table}
    /\ \E r \in db["Names"] : r[foreign_key] # ret.arg

\* C6: inventory is read-only.  A step in which inventory returns leaves
\* every table of the store as it was.
C6_InventoryReadOnly ==
    [][ret'.op = "inventory" => db' = db]_vars

C6_Witness ==
    /\ ret.op = "inventory"
    /\ ret.value # EmptyDict
    /\ db["Photometry"] # {}
    /\ "Photometry" \notin DOMAIN ret.value

\* the tables that refer to table t, directly or through other tables
RECURSIVE DependentsUpTo(_, _)
DependentsUpTo(ts, n) ==
    IF n = 0 THEN ts
    ELSE DependentsUpTo(ts \cup { fk[1] : fk \in { k \in ForeignKeys : k[3] \in ts } }, n - 1)
Dependents(t) == DependentsUpTo({t}, Cardinality(TableNames)) \ {t}

\* C7: dependency-safe clearing.  load_database deletes the rows of a table
\* only after it deleted the rows of every table that refers to it,
\* directly or transitively, and no delete of the clearing phase raises a
\* foreign-key violation.
C7_DependencySafeClearing ==
    /\ ret.err # "IntegrityError on DELETE"
    /\ \A i \in DOMAIN log :
        log[i].kind = "clear" =>
            \A t \in Dependents(log[i].name) :
                \E j \in 1..(i - 1) : log[j].kind = "clear" /\ log[j].name = t

C7_Witness ==
    /\ Returned("load_database")
    /\ ret.err = "none"
    /\ \E i, j, k \in DOMAIN log :
        /\ i < j /\ j < k
        /\ log[i].kind = "clear" /\ log[i].name = "Photometry" /\ log[i].n > 0
        /\ log[j].kind = "clear" /\ log[j].name = "Telescopes" /\ log[j].n > 0
        /\ log[k].kind = "clear" /\ log[k].name = "Publications" /\ log[k].n > 0

\* C8: insertion order within a source document.  While load_json inserts
\* the rows of the other tables, the rows of the document's primary entry
\* are in the store, the row they all point to among them, and every row
\* the file has added to another table carries in foreign_key the primary
\* key of the first row of the primary entry.
C8_PrimaryFirst ==
    pc = "json_child" =>
        LET source == local.data[primary_table][1][primary_table_key]
        IN  /\ Range(local.data[primary_table]) \subseteq db[primary_table]
            /\ source \in SourcesOf(db)
            /\ \A t \in TableNames \ {primary_table} :
                \A r \in db[t] \ txn[t] : r[foreign_key] = source

C8_Witness ==
    /\ pc = "json_child"
    /\ local.idx > Len(local.rows)
    /\ \E t \in Range(InventoryTables) : db[t] # txn[t]

\* C9: order of load_database.  Every delete of the clearing phase precedes
\* every load; once anything is loaded every table has been cleared; the
\* reference tables are gone through in the configured order, all of them
\* before the first row of a source file is inserted.
C9_ClearThenReferenceThenSources ==
    LET refs == SelectSeq(log, LAMBDA e : e.kind = "ref")
    IN  /\ \A i, j \in DOMAIN log :
            (log[i].kind = "clear" /\ log[j].kind # "clear") => i < j
        /\ \A i, j \in DOMAIN log :
            (log[i].kind = "ref" /\ log[j].kind = "src") => i < j
        /\ (\E j \in DOMAIN log : log[j].kind # "clear") =>
            \A t \in TableNames : \E i \in DOMAIN log : log[i].kind = "clear" /\ log[i].name = t
        /\ Len(refs) <= Len(reference_tables)
        /\ \A i \in DOMAIN refs : refs[i].name = reference_tables[i]
        /\ (\E j \in DOMAIN log : log[j].kind = "src") => Len(refs) = Len(reference_tables)

C9_Witness ==
    /\ Returned("load_database")
    /\ ret.err = "none"
    /\ \E i, j \in DOMAIN log :
        /\ log[i].kind = "ref" /\ log[i].name = "Telescopes" /\ log[i].n > 0
        /\ log[j].kind = "src" /\ log[j].name = "Photometry"

SourceFiles(d) == ListFiles(d, source_directory)

\* C11: one file per primary row.  After a completed save_database
\* (clear_first left at its default) the source sub-directory holds as many
\* files as the primary table has rows, and no two sources have the same
\* file.
C11_OneFilePerSource ==
    (Returned("save_database") /\ exported.clear_first) =>
        /\ Cardinality(SourceFiles(dir)) = Cardinality(db[primary_table])
        /\ \A x, y \in SourcesOf(db) : Filename(x) = Filename(y) => x = y

\* C13: the file of a source holds its inventory.  After a completed
\* save_database the file of every source x of the primary table parses to
\* the document inventory(x) returns on the store as it is.
C13_FileIsInventory ==
    Returned("save_database") =>
        \A x \in SourcesOf(db) :
            /\ Exists(dir, source_directory, Filename(x))
            /\ dir.files[<<source_directory, Filename(x)>>].ok
            /\ dir.files[<<source_directory, Filename(x)>>].value = inventory(db, x)

\* what every turn of save_database's loop over the primary rows does hold:
\* the file it writes is the inventory of the row's source
C13_WrittenIsInventory ==
    [][pc = "save_src" /\ local'.idx = local.idx + 1 =>
        LET x == local.rows[local.idx][primary_table_key]
        IN  dir'.files[<<source_directory, Filename(x)>>] = json_dumps(inventory(db, x))]_vars

\* the file name the rule of the specification gives an identifier: the
\* asterisks dropped, every other character lower-cased and a space turned
\* into an underscore, what is left cut down to the stretch from its first
\* to its last character that is not whitespace, then the extension
Slug(v) ==
    LET kept == SelectSeq(v, LAMBDA c : c # "*")
        mapped == [i \in DOMAIN kept |->
                    IF kept[i] = " " THEN "_" ELSE LowerChar(kept[i])]
        solid == { i \in DOMAIN mapped : mapped[i] \notin Whitespace }
        first == CHOOSE i \in solid : \A j \in solid : i <= j
        last == CHOOSE i \in solid : \A j \in solid : j <= i
    IN  (IF solid = {} THEN << >> ELSE SubSeq(mapped, first, last)) \o <<JSON>>

C14_CreateDatabaseFirst ==
    DOMAIN db = {} =>
        /\ pc \in {"new", "failed"}
        /\ pc = "failed" => ret = Ret("Database", << >>, EmptyDict,
                                      "RuntimeError: Create database first.")

\* the constructor has run over a store with no tables and has raised
C14_Witness == DOMAIN db = {} /\ pc = "failed" /\ ret.op = "Database"

\* the file of a reference table, if the directory has one
HasReferenceFile(d, t) ==
    Exists(d, reference_directory, <<t, JSON>>) \/ Exists(d, TOP, <<t, JSON>>)

\* the rows of the file of a reference table: the file of the reference
\* sub-directory if there is one, else the file of the top directory
ReferenceFileRows(d, t) ==
    IF Exists(d, reference_directory, <<t, JSON>>)
    THEN Range(d.files[<<reference_directory, <<t, JSON>>>>].value)
    ELSE Range(d.files[<<TOP, <<t, JSON>>>>].value)

\* C15: reference-table file lookup.  The turn of load_database for the
\* reference table t skips t silently, leaving the store as it is, when
\* neither <directory>/reference/<t>.json nor <directory>/<t>.json exists;
\* otherwise, unless the insert raises, the table holds exactly the rows of
\* the file afterwards, the file of the reference sub-directory taking
\* precedence, and no other table is touched.
C15_ReferenceLookup ==
    [][pc = "load_ref" =>
        LET t == reference_tables[local.idx]
        IN  IF ~HasReferenceFile(dir, t)
            THEN pc' # "idle" /\ db' = db
            ELSE pc' # "idle" =>
                    /\ db'[t] = ReferenceFileRows(dir, t)
                    /\ \A u \in TableNames \ {t} : db'[u] = db[u]]_vars

\* Publications has a file in both places, with different rows, and the
\* import has put the rows of reference/Publications.json into the table
C15_Witness ==
    /\ Returned("load_database") /\ ret.err = "none"
    /\ Exists(dir, reference_directory, <<"Publications", JSON>>)
    /\ Exists(dir, TOP, <<"Publications", JSON>>)
    /\ dir.files[<<TOP, <<"Publications", JSON>>>>].value
            # dir.files[<<reference_directory, <<"Publications", JSON>>>>].value
    /\ db["Publications"] = ReferenceFileRows(dir, "Publications")
    /\ Cardinality(db["Publications"]) = 2

\* the directory load_database looks for source documents in, as the
\* specification has it
EffectiveSourceDirectory(d) ==
    IF source_directory \in d.subdirs THEN source_directory ELSE TOP

\* the name of a file without its extension
BaseName(file) == SubSeq(file, 1, Len(file) - 1)

\* the files the specification has load_database parse and insert
IsSourceDocument(file) ==
    /\ EndsWithJson(file)
    /\ ~StartsWithDot(file)
    /\ BaseName(file) \notin { <<t>> : t \in Range(reference_tables) }

\* C16: source-file selection.  The files load_database goes through are
\* those of <directory>/source if it exists, else of <directory>, and a
\* turn of the loop that goes on to the next file has parsed the file and
\* started its insert if and only if the name of the file ends in .json,
\* does not start with '.', and without its extension is not the name of a
\* reference table.
C16_SourceFileSelection ==
    [][(pc = "load_src" /\ pc' # "idle") =>
        \A file \in local.todo \ local'.todo :
            /\ file \in ListDir(dir, EffectiveSourceDirectory(dir))
            /\ (pc' = "json_primary" /\ local'.file = file) <=> IsSourceDocument(file)]_vars

\* the text of a file of the directory load_database reads sources from
SourceText(d, file) == d.files[<<EffectiveSourceDirectory(d), file>>]

\* the rows the logged inserts of an import put into table t
RECURSIVE LoggedRows(_, _)
LoggedRows(l, t) ==
    IF l = << >> THEN 0
    ELSE (IF Head(l).kind \in {"ref", "src"} /\ Head(l).name = t THEN Head(l).n ELSE 0)
         + LoggedRows(Tail(l), t)

\* C17: abort on malformed input.  load_database never passes over or
\* inserts a selected source file that is not well-formed JSON; when it
\* meets one, the call ends with the parse error, that step changes nothing
\* in the store, nothing is loaded after it, and the store keeps what the
\* steps before it did: the tables are as the clears left them plus the
\* rows of the reference files and of the source files loaded so far.
C17_AbortOnMalformed ==
    [][pc = "load_src" =>
        /\ pc' # "idle" =>
            \A file \in local.todo \ local'.todo :
                SkipsFile(file) \/ SourceText(dir, file).ok
        /\ (pc' = "idle" /\ ret'.err = "JSONDecodeError") =>
            /\ \E file \in local.todo : ~SkipsFile(file) /\ ~SourceText(dir, file).ok
            /\ ret'.op = "load_database"
            /\ db' = db
            /\ log' = log
            /\ \A t \in TableNames : Cardinality(db'[t]) = LoggedRows(log, t)]_vars

\* an import over a store that held rows has ended on a malformed file
\* after a reference file and a source file were loaded: the old rows are
\* gone and the new ones are in the store
C17_Witness ==
    /\ Returned("load_database") /\ ret.err = "JSONDecodeError"
    /\ \E i \in DOMAIN log : log[i].kind = "clear" /\ log[i].n > 0
    /\ \E i \in DOMAIN log : log[i].kind = "ref" /\ log[i].n > 0
    /\ \E i \in DOMAIN log : log[i].kind = "src" /\ log[i].name = "Names"
    /\ db[primary_table] # {} /\ db["Names"] # {}
    /\ db # PopulatedStore

\* C18: per-file atomicity.  When an insert of a source file fails, the
\* call ends with the error of the store and the store is as it was before
\* the file: none of the rows of the file is in it, the primary row and the
\* rows of other tables inserted before the failure included.
C18_PerFileAtomicity ==
    [][(pc \in {"json_primary", "json_child"} /\ pc' = "idle") =>
        /\ ret'.op = "load_database" /\ ret'.err = "IntegrityError"
        /\ db' = IF pc = "json_primary" THEN db ELSE txn
        /\ pc = "json_child" =>
            /\ \A r \in Range(local.data[primary_table]) : r \notin db'[primary_table]
            /\ \A i \in DOMAIN local.rows : local.rows[i].row \notin db'[local.rows[i].table]]_vars

\* a file failed on its Photometry row after its Sources and Names rows
\* had been inserted, and neither table holds a row
C18_Witness ==
    /\ Returned("load_database") /\ ret.err = "IntegrityError"
    /\ \E i \in DOMAIN log : log[i].kind = "src" /\ log[i].name = "Names"
    /\ db[primary_table] = {} /\ db["Names"] = {}

\* the files save_database writes for a store
ExportedFiles(s) ==
    { <<reference_directory, <<t, JSON>>>> :
        t \in { u \in Range(reference_tables) \cap TableNames : s[u] # {} } }
    \cup { <<source_directory, Filename(x)>> : x \in SourcesOf(s) }

InputSources(r) == IF foreign_key \in DOMAIN r.value THEN r.value[foreign_key] ELSE {}

\* C20: proactive check of add_table_data.  A call for a table other than
\* the primary table whose input names, in its foreign_key column, a source
\* that is not in the primary table raises the 'missing entries' error and
\* leaves the store as it was.
C20_MissingEntries ==
    [][(/\ ret'.op = "add_table_data"
        /\ ret'.arg # <<primary_table>>
        /\ \E x \in InputSources(ret') : x \notin SourcesOf(db)) =>
        /\ ret'.err = "RuntimeError: missing entries"
        /\ db' = db]_vars

\* a call for Names with a row of a source the store holds and a row of a
\* source it does not hold has raised
C20_Witness ==
    /\ ret.op = "add_table_data" /\ ret.arg = <<"Names">>
    /\ ret.err = "RuntimeError: missing entries"
    /\ \E x \in InputSources(ret) : x \in SourcesOf(db)
    /\ \E x \in InputSources(ret) : x \notin SourcesOf(db)

\* C21: JSON codec round trip.  The document load_json reads from the file
\* save_json wrote equals the document that was written, for documents of
\* strings, integers, booleans, nulls, dates and datetimes; in particular a
\* string comes back as the string it was.
C21_CodecRoundTrip ==
    pc = "read" => ret.value = local.data

\* the part of the claim on strings that are not in a recognised form: they
\* come back unchanged
C21_OtherStringsUnchanged ==
    pc = "read" =>
        \A t \in DOMAIN local.data : \A i \in DOMAIN local.data[t] :
            \A k \in DOMAIN local.data[t][i] :
                LET obj == local.data[t][i][k]
                IN  (obj.type = "str" /\ ~IsDateText(obj.v) /\ ~IsDateTimeText(obj.v))
                        => ret.value[t][i][k] = obj

\* the rows for table t that the file at path p holds: the rows of the list
\* of <t>.json, or the rows a document has under t, the foreign key set to
\* the source of the document
RowsInFile(d, p, t) ==
    LET text == d.files[p]
    IN  IF ~text.ok THEN {}
        ELSE IF \E u \in Range(reference_tables) : p[2] = <<u, JSON>>
        THEN (IF p[2] = <<t, JSON>> THEN Range(text.value) ELSE {})
        ELSE IF t \notin DOMAIN text.value \/ primary_table \notin DOMAIN text.value
                \/ DocRows(text.value, primary_table) = << >>
        THEN {}
        ELSE IF t = primary_table THEN Range(text.value[t])
        ELSE { DictSet(r, foreign_key, text.value[primary_table][1][primary_table_key]) :
                r \in Range(text.value[t]) }

\* the rows for table t in the files under a directory
RowsUnder(d, t) == UNION { RowsInFile(d, p, t) : p \in DOMAIN d.files }

\* C22: load_database replaces.  When load_database has returned without
\* error, every row of every table is a row of a file under the directory:
\* no row the store held before the call and the files do not hold is left.
C22_LoadReplaces ==
    (Returned("load_database") /\ ret.err = "none") =>
        \A t \in TableNames : db[t] \subseteq RowsUnder(dir, t)

\* an import over a store that held a source has succeeded and loaded
\* another source; the source the store held, which no file has, is gone
C22_Witness ==
    /\ Returned("load_database") /\ ret.err = "none"
    /\ \E i \in DOMAIN log : log[i].kind = "clear" /\ log[i].name = primary_table /\ log[i].n > 0
    /\ db[primary_table] # {}
    /\ PopulatedStore[primary_table] \cap RowsUnder(dir, primary_table) = {}
    /\ PopulatedStore[primary_table] \cap db[primary_table] = {}

\* C23: load_database is idempotent.  A load_database that begins right
\* after a load_database that raised nothing (so neither the store nor the
\* directory changed in between) raises nothing either, and leaves the store
\* exactly as that first call left it.
C23_Idempotent ==
    (Returned("load_database") /\ previous.loaded) =>
        /\ ret.err = "none"
        /\ db = previous.db

\* the second of two loads in a row returned, with a reference row, a source
\* and a child row in the store the first one had already loaded
C23_Witness ==
    /\ Returned("load_database") /\ previous.loaded
    /\ calls = 2
    /\ previous.db[primary_table] # {}
    /\ previous.db["Names"] # {}
    /\ \E t \in Range(reference_tables) : previous.db[t] # {}
    /\ \E i \in DOMAIN log :
          log[i].kind = "clear" /\ log[i].name = primary_table /\ log[i].n > 0

\* C24: save_database never modifies the store.  While an export runs, and
\* when it has returned or raised, every table holds exactly the rows it
\* held when the export began.
C24_SaveLeavesStore ==
    (pc \in {"save_mkdirs", "save_ref", "save_src"} \/ Returned("save_database")) =>
        db = exported.db

\* an export of a store with a source and a child row has returned after
\* writing the source's file
C24_Witness ==
    /\ Returned("save_database") /\ ret.err = "none"
    /\ exported.db[primary_table] # {}
    /\ exported.db["Names"] # {}
    /\ \E f \in ListFiles(dir, source_directory) : dir.files[<<source_directory, f>>].ok

\* an export of a store that is not empty has raised half way
C24_FailedWitness ==
    /\ Returned("save_database") /\ ret.err = "OSError"
    /\ exported.db[primary_table] # {}
    /\ dir.subdirs # {}

\* the parsed text is a document without a first row of the primary table
NoPrimaryEntry(text) ==
    /\ text.ok
    /\ \/ primary_table \notin DOMAIN text.value
       \/ text.value[primary_table] = << >>

\* C25: a source document that has no primary-table key, or whose
\* primary-table entry is empty, makes load_json fail before any insert.
\* load_json never goes on to its inserts with such a document; the step
\* that meets one raises KeyError or IndexError and leaves every table and
\* the log of store steps as they were, so no child row of the document is
\* inserted; and an import that raised nothing had no such document among
\* the files it selected.
C25_NoPrimaryEntryFails ==
    [][pc = "load_src" =>
        /\ pc' # "idle" =>
            \A file \in local.todo \ local'.todo :
                SkipsFile(file) \/ ~NoPrimaryEntry(SourceText(dir, file))
        /\ (pc' = "idle" /\ ret'.err \in {"KeyError", "IndexError"}) =>
            /\ \E file \in local.todo :
                  ~SkipsFile(file) /\ NoPrimaryEntry(SourceText(dir, file))
            /\ ret'.op = "load_database"
            /\ db' = db
            /\ log' = log
        /\ (pc' = "idle" /\ ret'.err = "none") =>
            \A file \in ListFiles(dir, EffectiveSourceDirectory(dir)) :
                SkipsFile(file) \/ ~NoPrimaryEntry(SourceText(dir, file))]_vars

\* an import has raised KeyError on the document inventory returns for a
\* source that does not exist, after it loaded a reference row and another
\* source
C25_Witness ==
    /\ Returned("load_database") /\ ret.err = "KeyError"
    /\ Exists(dir, source_directory, Filename(<<"z">>))
    /\ SourceText(dir, Filename(<<"z">>)).value = EmptyDict
    /\ db["Publications"] # {}
    /\ db[primary_table] # {}
    /\ \A t \in TableNames : Cardinality(db[t]) = LoggedRows(log, t)

\* an import has raised IndexError on a document with child rows and an
\* empty primary entry, and the table of the child rows is empty
C25_EmptyEntryWitness ==
    /\ Returned("load_database") /\ ret.err = "IndexError"
    /\ source_directory \in dir.subdirs
    /\ Exists(dir, source_directory, <<"e", JSON>>)
    /\ db["Publications"] # {}
    /\ db["Names"] = {}

====
